---------------------------- MODULE Spec2Model ----------------------------
(***************************************************************************)
(* Caption loading, normalisation and batched embedding of                 *)
(* scripts/process_captions.py.                                            *)
(*                                                                         *)
(* A Python str is a sequence of one-character strings, so that strip,     *)
(* startswith, removeprefix and pathlib's parsing are computed character   *)
(* by character.  A Python value that need not be a str (a pandas cell) is *)
(* a record [kind, s]: kind "str" with its characters, "float" for NaN,    *)
(* "int" for a cell pandas parsed as a number.                             *)
(***************************************************************************)
EXTENDS Integers, Sequences, FiniteSets, TLC

(***************************************************************************)
(* Bounds of the model.                                                    *)
(***************************************************************************)
MaxRecords == 2     \* records in a dataset file (dataset API runs)
MaxCalls == 2       \* len/get calls made on a constructed dataset
MaxItems == 3       \* records in a dataset file (pipeline runs)
MaxBatchSize == 2   \* batch_size of a pipeline run, 1..MaxBatchSize

(***************************************************************************)
(* str methods                                                             *)
(***************************************************************************)
Whitespace == {" ", "\t", "\n"}

RECURSIVE lstrip(_)
lstrip(s) ==
  IF s # <<>> /\ Head(s) \in Whitespace THEN lstrip(Tail(s)) ELSE s

RECURSIVE rstrip(_)
rstrip(s) ==
  IF s # <<>> /\ s[Len(s)] \in Whitespace
    THEN rstrip(SubSeq(s, 1, Len(s) - 1))
    ELSE s

strip(s) == rstrip(lstrip(s))

startswith(s, prefix) ==
  Len(prefix) <= Len(s) /\ SubSeq(s, 1, Len(prefix)) = prefix

removeprefix(s, prefix) ==
  IF startswith(s, prefix) THEN SubSeq(s, Len(prefix) + 1, Len(s)) ELSE s

\* 1-based position of the last occurrence of ch in s, 0 when there is none
RECURSIVE rfind(_, _)
rfind(s, ch) ==
  IF s = <<>> THEN 0
  ELSE IF s[Len(s)] = ch THEN Len(s)
  ELSE rfind(SubSeq(s, 1, Len(s) - 1), ch)

RECURSIVE join(_, _)
join(parts, sep) ==
  IF parts = <<>> THEN <<>>
  ELSE IF Len(parts) = 1 THEN parts[1]
  ELSE parts[1] \o sep \o join(Tail(parts), sep)

(***************************************************************************)
(* The phrase catalog                                                      *)
(***************************************************************************)
COMMON_BEGINNING_PHRASES ==
  << <<"T", "h", "i", "s", " ", "v", "i", "d", "e", "o">>,
     <<"T", "h", "e", " ", "v", "i", "d", "e", "o">>,
     <<"T", "h", "i", "s", " ", "c", "l", "i", "p">>,
     <<"T", "h", "e", " ", "c", "l", "i", "p">>,
     <<"T", "h", "e", " ", "a", "n", "i", "m", "a", "t", "i", "o", "n">>,
     <<"T", "h", "i", "s", " ", "i", "m", "a", "g", "e">>,
     <<"T", "h", "e", " ", "i", "m", "a", "g", "e">>,
     <<"T", "h", "i", "s", " ", "p", "i", "c", "t", "u", "r", "e">>,
     <<"T", "h", "e", " ", "p", "i", "c", "t", "u", "r", "e">> >>

COMMON_CONTINUATION_WORDS ==
  << <<"s", "h", "o", "w", "s">>,
     <<"d", "e", "p", "i", "c", "t", "s">>,
     <<"f", "e", "a", "t", "u", "r", "e", "s">>,
     <<"c", "a", "p", "t", "u", "r", "e", "s">>,
     <<"h", "i", "g", "h", "l", "i", "g", "h", "t", "s">>,
     <<"i", "n", "t", "r", "o", "d", "u", "c", "e", "s">>,
     <<"p", "r", "e", "s", "e", "n", "t", "s">> >>

\* the five literal openers, then beginning x continuation, beginning-major
COMMON_LLM_START_PHRASES ==
  << <<"I", "n", " ", "t", "h", "e", " ", "v", "i", "d", "e", "o", ",">>,
     <<"I", "n", " ", "t", "h", "i", "s", " ", "v", "i", "d", "e", "o", ",">>,
     <<"I", "n", " ", "t", "h", "i", "s", " ", "v", "i", "d", "e", "o", " ", "c", "l", "i", "p", ",">>,
     <<"I", "n", " ", "t", "h", "e", " ", "c", "l", "i", "p", ",">>,
     <<"C", "a", "p", "t", "i", "o", "n", ":">> >>
  \o [k \in 1..(Len(COMMON_BEGINNING_PHRASES) * Len(COMMON_CONTINUATION_WORDS)) |->
        COMMON_BEGINNING_PHRASES[((k - 1) \div Len(COMMON_CONTINUATION_WORDS)) + 1]
        \o <<" ">>
        \o COMMON_CONTINUATION_WORDS[((k - 1) % Len(COMMON_CONTINUATION_WORDS)) + 1]]

(***************************************************************************)
(* pathlib.Path (PurePosixPath): a path is [root, parts].  Parsing drops   *)
(* empty and "." components; ".." is kept, as pathlib keeps it.            *)
(***************************************************************************)
KeepPart(cur) == cur # <<>> /\ cur # <<".">>

RECURSIVE SplitParts(_, _, _)
SplitParts(s, cur, acc) ==
  IF s = <<>> THEN (IF KeepPart(cur) THEN Append(acc, cur) ELSE acc)
  ELSE IF Head(s) = "/"
    THEN SplitParts(Tail(s), <<>>, IF KeepPart(cur) THEN Append(acc, cur) ELSE acc)
    ELSE SplitParts(Tail(s), Append(cur, Head(s)), acc)

Path(s) == [root |-> s # <<>> /\ Head(s) = "/", parts |-> SplitParts(s, <<>>, <<>>)]

PathStr(p) ==
  IF p.parts = <<>> THEN (IF p.root THEN <<"/">> ELSE <<".">>)
  ELSE (IF p.root THEN <<"/">> ELSE <<>>) \o join(p.parts, <<"/">>)

PathName(p) == IF p.parts = <<>> THEN <<>> ELSE p.parts[Len(p.parts)]

\* the name without its suffix: the suffix starts at the last "." of the
\* name, unless that "." is the name's first or last character
PathStem(name) ==
  LET i == rfind(name, ".")
  IN  IF 1 < i /\ i < Len(name) THEN SubSeq(name, 1, i - 1) ELSE name

\* Path.with_suffix(suffix); defined when the path has a name
with_suffix(p, suffix) ==
  [root |-> p.root,
   parts |-> SubSeq(p.parts, 1, Len(p.parts) - 1)
             \o << PathStem(PathName(p)) \o suffix >>]

PathParent(p) ==
  [root |-> p.root,
   parts |-> IF p.parts = <<>> THEN <<>> ELSE SubSeq(p.parts, 1, Len(p.parts) - 1)]

\* base / rel
PathJoin(base, rel) ==
  IF rel.root THEN rel ELSE [root |-> base.root, parts |-> base.parts \o rel.parts]

\* the directories mkdir(parents=True, exist_ok=True) makes sure exist
MkdirParents(p) ==
  { PathStr([root |-> p.root, parts |-> SubSeq(p.parts, 1, k)]) : k \in 1..Len(p.parts) }

(***************************************************************************)
(* Values, and pandas.read_csv with its defaults: a cell that is absent or *)
(* spells one of the NA values is NaN; a column whose other cells are all  *)
(* digit strings is numeric (int64, or float64 when it holds a NaN); any   *)
(* other cell keeps its text unchanged.  (Other numeric and boolean        *)
(* spellings are outside the inputs drawn.)                                *)
(***************************************************************************)
Str(s) == [kind |-> "str", s |-> s]
NaN == [kind |-> "float", s |-> <<>>]
Int64(s) == [kind |-> "int", s |-> s]
Float64(s) == [kind |-> "float", s |-> s]

NA_VALUES ==
  { <<>>, <<"#", "N", "/", "A">>, <<"#", "N", "/", "A", " ", "N", "/", "A">>, <<"#", "N", "A">>, <<"-", "1", ".", "#", "I", "N", "D">>, <<"-", "1", ".", "#", "Q", "N", "A", "N">>, <<"-", "N", "a", "N">>,
    <<"-", "n", "a", "n">>, <<"1", ".", "#", "I", "N", "D">>, <<"1", ".", "#", "Q", "N", "A", "N">>, <<"<", "N", "A", ">">>, <<"N", "/", "A">>, <<"N", "A">>, <<"N", "U", "L", "L">>,
    <<"N", "a", "N">>, <<"N", "o", "n", "e">>, <<"n", "/", "a">>, <<"n", "a", "n">>, <<"n", "u", "l", "l">> }

Digits == {"0", "1", "2", "3", "4", "5", "6", "7", "8", "9"}

IsNumber(s) == s # <<>> /\ \A k \in 1..Len(s) : s[k] \in Digits

IsNA(cell) == ~cell.has \/ cell.text \in NA_VALUES

\* the values of one column of the frame, from the column's cells
ParseColumn(cells) ==
  LET numeric == /\ \E k \in 1..Len(cells) : ~IsNA(cells[k])
                 /\ \A k \in 1..Len(cells) : IsNA(cells[k]) \/ IsNumber(cells[k].text)
      anyNA == \E k \in 1..Len(cells) : IsNA(cells[k])
  IN  [k \in 1..Len(cells) |->
         IF IsNA(cells[k]) THEN NaN
         ELSE IF numeric THEN (IF anyNA THEN Float64(cells[k].text) ELSE Int64(cells[k].text))
         ELSE Str(cells[k].text)]

\* df = pd.read_csv(dataset_file): the header's columns and the parsed rows
read_csv(f) ==
  LET cap == ParseColumn([k \in 1..Len(f.records) |-> f.records[k].caption])
      med == ParseColumn([k \in 1..Len(f.records) |-> f.records[k].media])
  IN  [has_caption_column |-> f.caption_column_in_header,
       has_media_column |-> f.media_column_in_header,
       rows |-> [k \in 1..Len(f.records) |-> [caption |-> cap[k], media |-> med[k]]]]

\* json.load / json.loads of an object per record: the keys it has, with
\* their string values
JsonEntry(r) ==
  [has_caption |-> r.caption.has, caption |-> Str(r.caption.text),
   has_media |-> r.media.has, media |-> Str(r.media.text)]

(***************************************************************************)
(* dict: insertion-ordered sequence of [key, value]; assigning an existing *)
(* key replaces its value in place.                                        *)
(***************************************************************************)
DictHas(d, key) == \E k \in 1..Len(d) : d[k].key = key

\* a list of pairs instead of a dict: an existing key is not replaced
DictSetItemAppend(d, key, value) == Append(d, [key |-> key, value |-> value])

DictSetItem(d, key, value) ==
  IF DictHas(d, key)
    THEN [k \in 1..Len(d) |-> IF d[k].key = key THEN [key |-> key, value |-> value] ELSE d[k]]
    ELSE Append(d, [key |-> key, value |-> value])

DictKeys(d) == [k \in 1..Len(d) |-> d[k].key]
DictValues(d) == [k \in 1..Len(d) |-> d[k].value]

(***************************************************************************)
(* Format loaders.  A load returns [status, at, data]: status "ok" with    *)
(* the mapping, or the exception raised and the 1-based record it was      *)
(* raised at (0: before any record).                                       *)
(***************************************************************************)
Ok(caption_data) == [status |-> "ok", at |-> 0, data |-> caption_data]
Raise(exception, k) == [status |-> exception, at |-> k, data |-> <<>>]

\* media_path = Path(<media>.strip()); output_path = str(media_path.with_suffix(".pt"))
\* .strip() raises AttributeError on a value that is not a str, with_suffix
\* raises ValueError on a path with an empty name
output_path_of(media) ==
  IF media.kind # "str" THEN [error |-> "AttributeError", path |-> <<>>]
  ELSE LET media_path == Path(strip(media.s))
       IN  IF PathName(media_path) = <<>>
             THEN [error |-> "ValueError: empty name", path |-> <<>>]
             ELSE [error |-> "", path |-> PathStr(with_suffix(media_path, <<".", "p", "t">>))]

\* for _, row in df.iterrows(): ...
RECURSIVE csv_rows(_, _, _)
csv_rows(rows, k, caption_data) ==
  IF k > Len(rows) THEN Ok(caption_data)
  ELSE LET o == output_path_of(rows[k].media)
       IN  IF o.error # "" THEN Raise(o.error, k)
           ELSE csv_rows(rows, k + 1, DictSetItem(caption_data, o.path, rows[k].caption))

_load_caption_data_from_csv(f) ==
  LET df == read_csv(f)
  IN  IF ~df.has_caption_column THEN Raise("ValueError: caption column not found", 0)
      ELSE IF ~df.has_media_column THEN Raise("ValueError: media column not found", 0)
      ELSE csv_rows(df.rows, 1, <<>>)

\* for entry in data: ...
RECURSIVE json_entries(_, _, _)
json_entries(data, k, caption_data) ==
  IF k > Len(data) THEN Ok(caption_data)
  ELSE LET entry == JsonEntry(data[k])
       IN  IF ~entry.has_caption THEN Raise("ValueError: caption key not found", k)
           ELSE IF ~entry.has_media THEN Raise("ValueError: media key not found", k)
           ELSE LET o == output_path_of(entry.media)
                IN  IF o.error # "" THEN Raise(o.error, k)
                    ELSE json_entries(data, k + 1,
                                      DictSetItem(caption_data, o.path, entry.caption))

_load_caption_data_from_json(f) ==
  IF ~f.is_list THEN Raise("ValueError: not a list", 0)
  ELSE json_entries(f.records, 1, <<>>)

\* for line in file: entry = json.loads(line); ...
RECURSIVE jsonl_lines(_, _, _)
jsonl_lines(lines, k, caption_data) ==
  IF k > Len(lines) THEN Ok(caption_data)
  ELSE LET entry == JsonEntry(lines[k])
       IN  IF ~entry.has_caption THEN Raise("ValueError: caption key not found", k)
           ELSE IF ~entry.has_media THEN Raise("ValueError: media key not found", k)
           ELSE LET o == output_path_of(entry.media)
                IN  IF o.error # "" THEN Raise(o.error, k)
                    ELSE jsonl_lines(lines, k + 1,
                                     DictSetItem(caption_data, o.path, entry.caption))

_load_caption_data_from_jsonl(f) == jsonl_lines(f.records, 1, <<>>)

\* a dispatch whose last branch takes any other suffix for a CSV
_load_caption_data_default_csv(f) ==
  IF f.suffix = ".json" THEN _load_caption_data_from_json(f)
  ELSE IF f.suffix = ".jsonl" THEN _load_caption_data_from_jsonl(f)
  ELSE _load_caption_data_from_csv(f)

_load_caption_data(f) ==
  IF f.suffix = ".csv" THEN _load_caption_data_from_csv(f)
  ELSE IF f.suffix = ".json" THEN _load_caption_data_from_json(f)
  ELSE IF f.suffix = ".jsonl" THEN _load_caption_data_from_jsonl(f)
  ELSE Raise("ValueError: unsupported format", 0)

(***************************************************************************)
(* Prefix cleaning                                                         *)
(***************************************************************************)
\* for phrase in COMMON_LLM_START_PHRASES (from the k-th on): the first
\* phrase the prompt starts with is removed, and the loop breaks
\* the loop without its break: every phrase found in turn is removed
RECURSIVE remove_every_phrase(_, _)
remove_every_phrase(prompt, k) ==
  IF k > Len(COMMON_LLM_START_PHRASES) THEN prompt
  ELSE IF startswith(prompt, COMMON_LLM_START_PHRASES[k])
    THEN remove_every_phrase(strip(removeprefix(prompt, COMMON_LLM_START_PHRASES[k])), k + 1)
    ELSE remove_every_phrase(prompt, k + 1)

RECURSIVE remove_first_phrase(_, _)
remove_first_phrase(prompt, k) ==
  IF k > Len(COMMON_LLM_START_PHRASES) THEN prompt
  ELSE IF startswith(prompt, COMMON_LLM_START_PHRASES[k])
    THEN strip(removeprefix(prompt, COMMON_LLM_START_PHRASES[k]))
    ELSE remove_first_phrase(prompt, k + 1)

\* cleaning that rebuilds the list and forgets the prompts that start with
\* no phrase
_clean_llm_prefixes_matching_only(ps, i) ==
  IF \E k \in 1..Len(ps) : ps[k].kind # "str"
    THEN [status |-> "AttributeError", prompts |-> ps]
    ELSE LET matching == SelectSeq(ps, LAMBDA p :
                           \E k \in 1..Len(COMMON_LLM_START_PHRASES) :
                             startswith(strip(p.s), COMMON_LLM_START_PHRASES[k]))
         IN  [status |-> "ok",
              prompts |-> [k \in 1..Len(matching) |->
                             Str(remove_first_phrase(strip(matching[k].s), 1))]]

\* for i in range(len(self.prompts)) (from the i-th on): [status, prompts];
\* .strip() raises AttributeError on a prompt that is not a str
RECURSIVE _clean_llm_prefixes(_, _)
_clean_llm_prefixes(ps, i) ==
  IF i > Len(ps) THEN [status |-> "ok", prompts |-> ps]
  ELSE IF ps[i].kind # "str" THEN [status |-> "AttributeError", prompts |-> ps]
  ELSE _clean_llm_prefixes(
         [ps EXCEPT ![i] = Str(remove_first_phrase(strip(ps[i].s), 1))], i + 1)

\* self.id_token = f"{id_token.strip()} " if id_token else ""
\* (the argument is [has, text]: None is has = FALSE)
IdTokenOf(arg) ==
  IF arg.has /\ arg.text # <<>> THEN strip(arg.text) \o <<" ">> ELSE <<>>

(***************************************************************************)
(* Inputs.  A dataset file is [suffix, caption_column_in_header,           *)
(* media_column_in_header, is_list, records]: the header flags are read by *)
(* the CSV loader only, is_list (the top-level JSON value is a list) by    *)
(* the JSON loader only.  A record is [caption, media], each a cell        *)
(* [has, text]: has = FALSE is a key the object lacks, or a cell the CSV   *)
(* row lacks.                                                              *)
(***************************************************************************)
Cell(text) == [has |-> TRUE, text |-> text]
NoCell == [has |-> FALSE, text |-> <<>>]
Record(media, caption) == [caption |-> caption, media |-> media]

RecordPool ==
  << Record(Cell(<<"a", "/", "b", ".", "m", "p", "4">>), Cell(<<"A", " ", "d", "o", "g", " ", "r", "u", "n", "s", ".">>)),
     \* same output path as the first: other extension, surrounding blanks
     Record(Cell(<<" ", "a", "/", "b", ".", "m", "o", "v", " ">>), Cell(<<"C", "a", "p", "t", "i", "o", "n", ":", " ", "T", "h", "i", "s", " ", "v", "i", "d", "e", "o", " ", "s", "h", "o", "w", "s", " ", "a", " ", "c", "a", "t", ".">>)),
     Record(Cell(<<".", "/", "c", "/", "/", "d", ".", "t", "a", "r", ".", "g", "z">>), Cell(<<" ", "T", "h", "e", " ", "v", "i", "d", "e", "o", " ", "d", "e", "p", "i", "c", "t", "s", " ", "a", " ", "s", "u", "n", "s", "e", "t", ".", "\n">>)),
     Record(Cell(<<"e", ".", "m", "p", "4">>), Cell(<<"T", "h", "i", "s", " ", "v", "i", "d", "e", "o", ",", " ", "s", "h", "o", "w", "s", " ", "a", " ", "c", "a", "t", ".">>)),
     Record(Cell(<<"f", ".", "m", "p", "4">>), Cell(<<"N", "A">>)),
     Record(Cell(<<"g", ".", "m", "p", "4">>), Cell(<<"7">>)),
     Record(Cell(<<"h", ".", "m", "p", "4">>), NoCell),
     Record(NoCell, Cell(<<"A", " ", "d", "o", "g", " ", "r", "u", "n", "s", ".">>)),
     Record(Cell(<<" ">>), Cell(<<"I", "n", " ", "t", "h", "i", "s", " ", "v", "i", "d", "e", "o", " ", "c", "l", "i", "p", ",", " ", "a", " ", "c", "a", "t", ".">>)) >>

RecordSeqs(pool, n) == UNION { [1..m -> {pool[k] : k \in 1..Len(pool)}] : m \in 0..n }

File(suffix, capcol, medcol, is_list, records) ==
  [suffix |-> suffix, caption_column_in_header |-> capcol,
   media_column_in_header |-> medcol, is_list |-> is_list, records |-> records]

FilesOver(seqs) ==
  { File(".csv", cols[1], cols[2], TRUE, rs) :
      cols \in {<<TRUE, TRUE>>, <<FALSE, TRUE>>, <<TRUE, FALSE>>}, rs \in seqs }
  \cup { File(sfx, TRUE, TRUE, TRUE, rs) : sfx \in {".json", ".jsonl", ".txt", ".CSV"}, rs \in seqs }
  \cup { File(".json", TRUE, TRUE, FALSE, <<>>) }

Files == FilesOver(RecordSeqs(RecordPool, MaxRecords))

IdTokens == { NoCell, Cell(<<>>), Cell(<<" ", "X", " ">>), Cell(<<" ", " ">>) }

\* --output-dir
OutputDir == <<"o", "u", "t">>

(***************************************************************************)
(* State                                                                   *)
(***************************************************************************)
VARIABLES
  dataset_file, id_token_arg, remove_llm_prefixes, batch_size,  \* arguments
  pc,             \* where the caller is
  error,          \* the exception that ended it: [status, at]
  id_token, caption_data, output_paths, prompts,                \* CaptionsDataset
  calls, length, item,   \* len/get calls made, and what the last ones returned
  dirs,           \* directories created
  models_loaded,  \* tokenizer and text encoder are loaded
  loader,         \* the DataLoader iterator and its two workers
  batch, text_embeddings, i,                                     \* the batch loop
  encoder_calls,  \* the batches handed to encode_prompt, in call order
  saved           \* the torch.save calls, in call order

args == <<dataset_file, id_token_arg, remove_llm_prefixes, batch_size>>
dataset == <<id_token, caption_data, output_paths, prompts>>
api == <<calls, length, item>>
run == <<dirs, models_loaded, loader, batch, text_embeddings, i, encoder_calls, saved>>
vars == <<args, pc, error, dataset, api, run>>

NoError == [status |-> "", at |-> 0]
NoItem == [status |-> "", prompt |-> <<>>, output_path |-> <<>>, index |-> 0]
NoBatch == [status |-> "", prompt |-> <<>>, output_path |-> <<>>, index |-> <<>>]
NoLoader ==
  [send_idx |-> 0, rcvd_idx |-> 0, worker_queue_idx |-> 1, tasks_outstanding |-> 0,
   index_queues |-> <<>>, data_queue |-> <<>>, task_info |-> {}]

Blank ==
  /\ pc = "start"
  /\ error = NoError
  /\ id_token = <<>> /\ caption_data = <<>> /\ output_paths = <<>> /\ prompts = <<>>
  /\ calls = 0 /\ length = -1 /\ item = NoItem
  /\ dirs = {} /\ models_loaded = FALSE /\ loader = NoLoader
  /\ batch = NoBatch /\ text_embeddings = <<>> /\ i = 0
  /\ encoder_calls = <<>> /\ saved = <<>>

Init ==
  /\ dataset_file \in Files
  /\ id_token_arg \in IdTokens
  /\ remove_llm_prefixes \in BOOLEAN
  /\ batch_size = 1
  /\ Blank

(***************************************************************************)
(* CaptionsDataset                                                         *)
(***************************************************************************)
\* CaptionsDataset(...): the whole of __init__.  An exception leaves no
\* dataset behind.
Construct ==
  /\ pc = "start"
  /\ LET loaded == _load_caption_data(dataset_file)
         cleaned == IF remove_llm_prefixes
                      THEN _clean_llm_prefixes(DictValues(loaded.data), 1)
                      ELSE [status |-> "ok", prompts |-> DictValues(loaded.data)]
     IN  IF loaded.status # "ok"
           THEN /\ pc' = "failed"
                /\ error' = [status |-> loaded.status, at |-> loaded.at]
                /\ UNCHANGED dataset
         ELSE IF cleaned.status # "ok"
           THEN /\ pc' = "failed"
                /\ error' = [status |-> cleaned.status, at |-> 0]
                /\ UNCHANGED dataset
         ELSE /\ pc' = "constructed"
              /\ id_token' = IdTokenOf(id_token_arg)
              /\ caption_data' = loaded.data
              /\ output_paths' = DictKeys(loaded.data)
              /\ prompts' = cleaned.prompts
              /\ UNCHANGED error
  /\ UNCHANGED <<args, api, run>>

\* __len__
_len == Len(prompts)

\* __getitem__(index): [status, prompt, output_path, index].  A negative
\* index counts from the end, as list indexing does; str + a value that is
\* not a str raises TypeError.
_getitem(index) ==
  LET n == Len(prompts)
      k == IF index < 0 THEN index + n ELSE index
  IN  IF k < 0 \/ k >= n
        THEN [status |-> "IndexError", prompt |-> <<>>, output_path |-> <<>>, index |-> index]
      ELSE IF prompts[k + 1].kind # "str"
        THEN [status |-> "TypeError", prompt |-> <<>>, output_path |-> <<>>, index |-> index]
      ELSE [status |-> "ok", prompt |-> id_token \o prompts[k + 1].s,
            output_path |-> output_paths[k + 1], index |-> index]

CallLen ==
  /\ pc = "constructed" /\ calls < MaxCalls
  /\ length' = _len
  /\ calls' = calls + 1
  /\ UNCHANGED <<args, pc, error, dataset, item, run>>

CallGet ==
  /\ pc = "constructed" /\ calls < MaxCalls
  /\ \E index \in -1..Len(prompts) :
       item' = _getitem(index)
  /\ calls' = calls + 1
  /\ UNCHANGED <<args, pc, error, dataset, length, run>>

Next == Construct \/ CallLen \/ CallGet

Spec == Init /\ [][Next]_vars

(***************************************************************************)
(* compute_captions_embeddings                                             *)
(***************************************************************************)
RunPool == << RecordPool[1], RecordPool[2], RecordPool[3], RecordPool[4], RecordPool[5] >>

RunFiles ==
  { File(sfx, TRUE, TRUE, TRUE, rs) :
      sfx \in {".csv", ".jsonl"}, rs \in RecordSeqs(RunPool, MaxItems) }
  \cup { File(".txt", TRUE, TRUE, TRUE, <<RunPool[1]>>),
         File(".txt", TRUE, TRUE, TRUE, <<RecordPool[7]>>),
         File(".CSV", TRUE, TRUE, TRUE, <<RunPool[1]>>),
         File(".json", TRUE, TRUE, TRUE, <<RunPool[1], RunPool[3]>>),
         File(".json", TRUE, TRUE, TRUE, <<RunPool[1], RecordPool[7]>>),
         File(".json", TRUE, TRUE, FALSE, <<>>),
         File(".csv", FALSE, TRUE, TRUE, <<RunPool[1]>>),
         File(".jsonl", TRUE, TRUE, TRUE, <<RunPool[1], RecordPool[9]>>),
         \* an absolute media path: its artifact lands outside output_dir
         File(".jsonl", TRUE, TRUE, TRUE,
              <<RunPool[1], Record(Cell(<<"/", "x", "/", "y", ".", "m", "p", "4">>), Cell(<<"T", "h", "e", " ", "c", "l", "i", "p", " ", "s", "h", "o", "w", "s", " ", "a", " ", "c", "a", "t", ".">>))>>) }

InitRun ==
  /\ dataset_file \in RunFiles
  /\ id_token_arg \in {NoCell, Cell(<<" ", "X", " ">>)}
  /\ remove_llm_prefixes \in BOOLEAN
  /\ batch_size \in 1..MaxBatchSize
  /\ Blank

\* output_path = Path(output_dir); output_path.mkdir(parents=True, exist_ok=True)
MakeOutputDir ==
  /\ pc = "constructed"
  /\ dirs' = dirs \cup MkdirParents(Path(OutputDir))
  /\ pc' = "mkdir"
  /\ UNCHANGED <<args, error, dataset, api, models_loaded, loader, batch,
                 text_embeddings, i, encoder_calls, saved>>

\* tokenizer = load_tokenizer(); text_encoder = load_text_encoder(...).to(device)
LoadModels ==
  /\ pc = "mkdir"
  /\ models_loaded' = TRUE
  /\ pc' = "models"
  /\ UNCHANGED <<args, error, dataset, api, dirs, loader, batch,
                 text_embeddings, i, encoder_calls, saved>>

(***************************************************************************)
(* DataLoader(dataset, batch_size, shuffle=False, num_workers=2): the      *)
(* sampler cuts 0..len-1 into consecutive batches; the iterator keeps up   *)
(* to PrefetchFactor * NumWorkers batches of indices with the workers,     *)
(* dealt round-robin; each worker fetches its batches and puts them on one *)
(* shared result queue; the iterator hands batches out in send order,      *)
(* keeping those that arrive early in task_info.                           *)
(***************************************************************************)
NumWorkers == 2
PrefetchFactor == 2

\* BatchSampler(SequentialSampler(dataset), batch_size, drop_last=False)
RECURSIVE BatchSampler(_, _)
BatchSampler(indices, size) ==
  IF indices = <<>> THEN <<>>
  ELSE IF Len(indices) <= size THEN << indices >>
  ELSE << SubSeq(indices, 1, size) >>
       \o BatchSampler(SubSeq(indices, size + 1, Len(indices)), size)

Batches == BatchSampler([k \in 1.._len |-> k - 1], batch_size)

\* _try_put_index: the next batch of indices goes to the next worker
TryPutIndex(l) ==
  IF l.send_idx >= Len(Batches) THEN l
  ELSE [l EXCEPT
          !.index_queues[l.worker_queue_idx] =
             Append(@, [idx |-> l.send_idx, indices |-> Batches[l.send_idx + 1]]),
          !.worker_queue_idx = (l.worker_queue_idx % NumWorkers) + 1,
          !.tasks_outstanding = @ + 1,
          !.send_idx = @ + 1]

RECURSIVE Prime(_, _)
Prime(l, k) == IF k = 0 THEN l ELSE Prime(TryPutIndex(l), k - 1)

\* the worker's fetch: collate([dataset[idx] for idx in indices]), or the
\* exception the first failing dataset[idx] raised
Fetch(indices) ==
  LET items == [k \in 1..Len(indices) |-> _getitem(indices[k])]
      bad == { k \in 1..Len(items) : items[k].status # "ok" }
  IN  IF bad # {}
        THEN [status |-> items[CHOOSE k \in bad : \A m \in bad : k <= m].status,
              prompt |-> <<>>, output_path |-> <<>>, index |-> <<>>]
        ELSE [status |-> "ok",
              prompt |-> [k \in 1..Len(items) |-> items[k].prompt],
              output_path |-> [k \in 1..Len(items) |-> items[k].output_path],
              index |-> [k \in 1..Len(items) |-> items[k].index]]

\* dataloader = DataLoader(...); total_batches = len(dataloader); iter(dataloader)
CreateDataLoader ==
  /\ pc = "models"
  /\ loader' = Prime([send_idx |-> 0, rcvd_idx |-> 0, worker_queue_idx |-> 1,
                      tasks_outstanding |-> 0,
                      index_queues |-> [w \in 1..NumWorkers |-> <<>>],
                      data_queue |-> <<>>, task_info |-> {}],
                     PrefetchFactor * NumWorkers)
  /\ pc' = "next"
  /\ UNCHANGED <<args, error, dataset, api, dirs, models_loaded, batch,
                 text_embeddings, i, encoder_calls, saved>>

Running == pc \in {"next", "encode", "save"}

\* a worker process takes its next batch of indices, fetches it and puts
\* the result on the result queue
WorkerFetch(w) ==
  /\ Running
  /\ loader.index_queues[w] # <<>>
  /\ LET task == Head(loader.index_queues[w])
     IN  loader' = [loader EXCEPT
                      !.index_queues[w] = Tail(@),
                      !.data_queue = Append(@, [idx |-> task.idx,
                                                data |-> Fetch(task.indices)])]
  /\ UNCHANGED <<args, pc, error, dataset, api, dirs, models_loaded, batch,
                 text_embeddings, i, encoder_calls, saved>>

\* _process_data: the batch is handed to the loop, or its exception re-raised
ProcessData(l, data) ==
  /\ loader' = TryPutIndex([l EXCEPT !.rcvd_idx = @ + 1])
  /\ IF data.status = "ok"
       THEN /\ batch' = data
            /\ pc' = "encode"
            /\ UNCHANGED error
       ELSE /\ pc' = "failed"
            /\ error' = [status |-> data.status, at |-> 0]
            /\ UNCHANGED batch

\* next(iterator): the batch that is due has arrived earlier
NextBatchCached ==
  /\ pc = "next"
  /\ loader.rcvd_idx < loader.send_idx
  /\ \E t \in loader.task_info :
       /\ t.idx = loader.rcvd_idx
       /\ ProcessData([loader EXCEPT !.task_info = @ \ {t}], t.data)
  /\ UNCHANGED <<args, dataset, api, dirs, models_loaded,
                 text_embeddings, i, encoder_calls, saved>>

\* an iterator that hands out whatever batch arrives first
NextBatchReceiveAnyOrder ==
  /\ pc = "next"
  /\ loader.rcvd_idx < loader.send_idx
  /\ loader.data_queue # <<>>
  /\ ProcessData([loader EXCEPT !.data_queue = Tail(@), !.tasks_outstanding = @ - 1],
                 Head(loader.data_queue).data)
  /\ UNCHANGED <<args, dataset, api, dirs, models_loaded,
                 text_embeddings, i, encoder_calls, saved>>

\* next(iterator): the batch that is due has not arrived; take one result
\* off the queue, and keep it for later unless it is the one due
NextBatchReceive ==
  /\ pc = "next"
  /\ loader.rcvd_idx < loader.send_idx
  /\ \A t \in loader.task_info : t.idx # loader.rcvd_idx
  /\ loader.data_queue # <<>>
  /\ LET got == Head(loader.data_queue)
         l == [loader EXCEPT !.data_queue = Tail(@), !.tasks_outstanding = @ - 1]
     IN  IF got.idx # loader.rcvd_idx
           THEN /\ loader' = [l EXCEPT !.task_info = @ \cup {got}]
                /\ UNCHANGED <<pc, error, batch>>
           ELSE ProcessData(l, got.data)
  /\ UNCHANGED <<args, dataset, api, dirs, models_loaded,
                 text_embeddings, i, encoder_calls, saved>>

\* next(iterator) raises StopIteration: the loop and the run end
Finish ==
  /\ pc = "next"
  /\ loader.rcvd_idx >= loader.send_idx
  /\ pc' = "done"
  /\ UNCHANGED <<args, error, dataset, api, run>>

\* the external encoder: one embedding and one mask per prompt, by position
Embeds(prompt) == [embeds_of |-> prompt]
Mask(prompt) == [mask_of |-> prompt]
encode_prompt(prompt) ==
  [prompt_embeds |-> [k \in 1..Len(prompt) |-> Embeds(prompt[k])],
   prompt_attention_mask |-> [k \in 1..Len(prompt) |-> Mask(prompt[k])]]

\* text_embeddings = encode_prompt(..., prompt=batch["prompt"], ...)
Encode ==
  /\ pc = "encode"
  /\ encoder_calls' = Append(encoder_calls, batch)
  /\ text_embeddings' = encode_prompt(batch.prompt)
  /\ i' = 0
  /\ pc' = "save"
  /\ UNCHANGED <<args, error, dataset, api, dirs, models_loaded, loader, batch, saved>>

\* an encoder failure that is swallowed: the loop goes on to the next batch
EncodeFailsSkipsBatch ==
  /\ pc = "encode"
  /\ encoder_calls' = Append(encoder_calls, batch)
  /\ pc' = "next"
  /\ UNCHANGED <<args, error, dataset, api, dirs, models_loaded, loader, batch,
                 text_embeddings, i, saved>>

\* encode_prompt raises: the exception propagates out of the run
EncodeFails ==
  /\ pc = "encode"
  /\ encoder_calls' = Append(encoder_calls, batch)
  /\ pc' = "failed"
  /\ error' = [status |-> "encoder error", at |-> 0]
  /\ UNCHANGED <<args, dataset, api, dirs, models_loaded, loader, batch,
                 text_embeddings, i, saved>>

\* output_file = output_path / Path(batch["output_path"][i])
OutputFile(rel) == PathJoin(Path(OutputDir), Path(rel))

\* a save loop that takes the batch's first embedding for every item
SaveItemFirstEmbedding ==
  /\ pc = "save"
  /\ i < Len(batch.prompt)
  /\ LET output_file == OutputFile(batch.output_path[i + 1])
         embedding_data ==
           [prompt_embeds |-> text_embeddings.prompt_embeds[1],
            prompt_attention_mask |-> text_embeddings.prompt_attention_mask[1]]
     IN  /\ dirs' = dirs \cup MkdirParents(PathParent(output_file))
         /\ saved' = Append(saved, [file |-> PathStr(output_file), data |-> embedding_data])
  /\ i' = i + 1
  /\ UNCHANGED <<args, pc, error, dataset, api, models_loaded, loader, batch,
                 text_embeddings, encoder_calls>>

\* one pass of "for i in range(len(batch["prompt"]))"
SaveItem ==
  /\ pc = "save"
  /\ i < Len(batch.prompt)
  /\ LET output_file == OutputFile(batch.output_path[i + 1])
         embedding_data ==
           [prompt_embeds |-> text_embeddings.prompt_embeds[i + 1],
            prompt_attention_mask |-> text_embeddings.prompt_attention_mask[i + 1]]
     IN  /\ dirs' = dirs \cup MkdirParents(PathParent(output_file))
         /\ saved' = Append(saved, [file |-> PathStr(output_file), data |-> embedding_data])
  /\ i' = i + 1
  /\ UNCHANGED <<args, pc, error, dataset, api, models_loaded, loader, batch,
                 text_embeddings, encoder_calls>>

\* mkdir or torch.save raises: the exception propagates out of the run
SaveItemFails ==
  /\ pc = "save"
  /\ i < Len(batch.prompt)
  /\ \/ UNCHANGED dirs
     \/ dirs' = dirs \cup MkdirParents(PathParent(OutputFile(batch.output_path[i + 1])))
  /\ pc' = "failed"
  /\ error' = [status |-> "filesystem error", at |-> 0]
  /\ UNCHANGED <<args, dataset, api, models_loaded, loader, batch,
                 text_embeddings, i, encoder_calls, saved>>

\* progress.advance(task), and back to the head of the loop
AdvanceProgress ==
  /\ pc = "save"
  /\ i = Len(batch.prompt)
  /\ pc' = "next"
  /\ UNCHANGED <<args, error, dataset, api, run>>

NextRun ==
  \/ Construct
  \/ MakeOutputDir
  \/ LoadModels
  \/ CreateDataLoader
  \/ \E w \in 1..NumWorkers : WorkerFetch(w)
  \/ NextBatchCached
  \/ NextBatchReceive
  \/ Finish
  \/ Encode
  \/ EncodeFails
  \/ SaveItem
  \/ SaveItemFails
  \/ AdvanceProgress

SpecRun == InitRun /\ [][NextRun]_vars

(***************************************************************************)
(* Properties                                                              *)
(***************************************************************************)
SupportedSuffixes == {".csv", ".json", ".jsonl"}

\* every record carries both the caption and the media field (and, for a
\* CSV, the header names both columns; for a JSON file, the top is a list)
WellFormed(f) ==
  /\ f.suffix \in SupportedSuffixes
  /\ f.caption_column_in_header /\ f.media_column_in_header /\ f.is_list
  /\ \A k \in 1..Len(f.records) : f.records[k].caption.has /\ f.records[k].media.has

SetMin(S) == CHOOSE k \in S : \A m \in S : k <= m

\* the output path a record's media text derives
DerivedOutputPath(r) == output_path_of(Str(r.media.text)).path

\* C1 as stated: for every well-formed input file, in each format,
\* len(dataset) equals the number of records in the file, also when two
\* records' media paths differ only in extension or surrounding whitespace.
C1_LenEqualsRecordCount ==
  (length # -1 /\ WellFormed(dataset_file))
    => length = Len(dataset_file.records)

\* C1 amended: for every well-formed input file that loads, in each format,
\* len(dataset) equals the number of distinct derived output paths among the
\* file's records; so it equals the number of records exactly when no two
\* records derive the same output path.
C1_LenEqualsDistinctOutputPaths ==
  (length # -1 /\ WellFormed(dataset_file))
    => LET rs == dataset_file.records
           distinct == \A j, k \in 1..Len(rs) :
                         j # k => DerivedOutputPath(rs[j]) # DerivedOutputPath(rs[k])
       IN  /\ length = Cardinality({ DerivedOutputPath(rs[k]) : k \in 1..Len(rs) })
           /\ (length = Len(rs)) <=> distinct

\* two records whose media paths differ only in extension and surrounding
\* whitespace were loaded, and len() returned 1
C1_Witness ==
  /\ length = 1
  /\ WellFormed(dataset_file)
  /\ Len(dataset_file.records) = 2
  /\ dataset_file.records[1].media.text # dataset_file.records[2].media.text

\* the first record that lacks a field
LacksField(r) == ~r.caption.has \/ ~r.media.has
FirstLacking(f) == SetMin({ k \in 1..Len(f.records) : LacksField(f.records[k]) })

MissingFieldErrors ==
  { "ValueError: caption column not found", "ValueError: media column not found",
    "ValueError: caption key not found", "ValueError: media key not found" }

\* C2: in every format, when a record lacks the caption or the media field,
\* loading fails with a missing-field error at that record (unless an
\* earlier record already failed the load): no mapping is returned, no
\* dataset is constructed, the record is neither skipped nor loaded with a
\* placeholder.
C2_MissingFieldFailsLoad ==
  ( /\ pc # "start"
    /\ dataset_file.suffix \in SupportedSuffixes
    /\ dataset_file.is_list
    /\ \E k \in 1..Len(dataset_file.records) : LacksField(dataset_file.records[k]) )
    => /\ pc = "failed"
       /\ caption_data = <<>>
       /\ \/ error.status \in MissingFieldErrors
          \/ error.at \in 1..(FirstLacking(dataset_file) - 1)

\* what cleaning is to make of a loaded prompt: trimmed, the first catalog
\* phrase (in catalog order) it then starts with cut off, trimmed again
ExpectedClean(p) ==
  LET s == strip(p)
      matching == { k \in 1..Len(COMMON_LLM_START_PHRASES) :
                      startswith(s, COMMON_LLM_START_PHRASES[k]) }
  IN  IF matching = {} THEN s
      ELSE strip(SubSeq(s, Len(COMMON_LLM_START_PHRASES[SetMin(matching)]) + 1, Len(s)))

\* C3: with remove_llm_prefixes, every stored prompt is the loaded prompt
\* trimmed, with the first catalog phrase it starts with removed once and
\* the rest trimmed (so "Caption: This video shows a cat." keeps "This video
\* shows a cat.", and a prompt starting with no phrase is only trimmed);
\* without it, the stored prompts are the loaded ones.
C3_FirstPhraseRemovedOnce ==
  pc = "constructed"
    => /\ Len(prompts) = Len(caption_data)
       /\ \A k \in 1..Len(prompts) :
            LET p == caption_data[k].value
            IN  /\ remove_llm_prefixes => prompts[k] = Str(ExpectedClean(p.s))
                /\ ~remove_llm_prefixes => prompts[k] = p
                /\ (remove_llm_prefixes /\ p = Str(<<"C", "a", "p", "t", "i", "o", "n", ":", " ", "T", "h", "i", "s", " ", "v", "i", "d", "e", "o", " ", "s", "h", "o", "w", "s", " ", "a", " ", "c", "a", "t", ".">>))
                     => prompts[k] = Str(<<"T", "h", "i", "s", " ", "v", "i", "d", "e", "o", " ", "s", "h", "o", "w", "s", " ", "a", " ", "c", "a", "t", ".">>)
                /\ (remove_llm_prefixes /\ p = Str(<<"T", "h", "i", "s", " ", "v", "i", "d", "e", "o", ",", " ", "s", "h", "o", "w", "s", " ", "a", " ", "c", "a", "t", ".">>))
                     => prompts[k] = p

\* a prompt with two catalog phrases in a row was cleaned, next to one with
\* a phrase between blanks
C3_Witness ==
  /\ pc = "constructed"
  /\ remove_llm_prefixes
  /\ \E k \in 1..Len(prompts) :
       /\ caption_data[k].value = Str(<<"C", "a", "p", "t", "i", "o", "n", ":", " ", "T", "h", "i", "s", " ", "v", "i", "d", "e", "o", " ", "s", "h", "o", "w", "s", " ", "a", " ", "c", "a", "t", ".">>)
       /\ prompts[k] = Str(<<"T", "h", "i", "s", " ", "v", "i", "d", "e", "o", " ", "s", "h", "o", "w", "s", " ", "a", " ", "c", "a", "t", ".">>)
  /\ \E k \in 1..Len(prompts) :
       /\ caption_data[k].value = Str(<<" ", "T", "h", "e", " ", "v", "i", "d", "e", "o", " ", "d", "e", "p", "i", "c", "t", "s", " ", "a", " ", "s", "u", "n", "s", "e", "t", ".", "\n">>)
       /\ prompts[k] = Str(<<"a", " ", "s", "u", "n", "s", "e", "t", ".">>)

\* the token the id_token argument stands for
ExpectedToken ==
  IF id_token_arg.has /\ id_token_arg.text # <<>>
    THEN strip(id_token_arg.text) \o <<" ">>
    ELSE <<>>

\* C4: get(i) at a valid index i, after any calls, returns the stored
\* prompt with the trimmed token and one space in front of it, once (the
\* stored prompt itself when there is no token), and the item's output path.
C4_GetPrependsTokenOnce ==
  (pc = "constructed" /\ item.status # "" /\ item.index \in 0..(Len(prompts) - 1))
    => /\ item.status = "ok"
       /\ item.prompt = ExpectedToken \o prompts[item.index + 1].s
       /\ item.output_path = output_paths[item.index + 1]

\* C5: the same logical dataset (every record has its media path and its
\* caption) loads to the same output-path -> caption mapping, in the same
\* key order, through the CSV, the JSON and the JSONL loader.
C5_FormatsAgree ==
  (pc = "constructed" /\ WellFormed(dataset_file))
    => \A sfx \in SupportedSuffixes :
         LET other == _load_caption_data([dataset_file EXCEPT !.suffix = sfx])
         IN  other.status = "ok" /\ other.data = caption_data

DictGet(d, key) == d[CHOOSE k \in 1..Len(d) : d[k].key = key].value

\* C6: in every state of a constructed dataset, output_paths and prompts
\* have one length, output_paths is the key order of the loaded mapping,
\* and prompts[i] is the (cleaned, when cleaning is on) caption the loaded
\* mapping holds for output_paths[i].
C6_ParallelSequences ==
  pc \notin {"start", "failed"}
    => LET mapping == _load_caption_data(dataset_file).data
       IN  /\ Len(output_paths) = Len(prompts)
           /\ output_paths = DictKeys(mapping)
           /\ \A j, k \in 1..Len(output_paths) : j # k => output_paths[j] # output_paths[k]
           /\ \A k \in 1..Len(prompts) :
                LET caption == DictGet(mapping, output_paths[k])
                IN  prompts[k] = IF remove_llm_prefixes
                                   THEN Str(ExpectedClean(caption.s))
                                   ELSE caption

\* a dataset of two entries, one of them changed by cleaning, after a len
\* and a get call
C6_Witness ==
  /\ pc = "constructed"
  /\ remove_llm_prefixes
  /\ Len(prompts) = 2
  /\ prompts # DictValues(caption_data)
  /\ calls = 2 /\ length = 2 /\ item.status = "ok"

CeilDiv(n, d) == (n + d - 1) \div d
Min(a, b) == IF a <= b THEN a ELSE b

\* the indices of batch number k (1-based) of n items in batches of size
BatchIndexRange(k, n, size) ==
  [j \in 1..(Min(k * size, n) - (k - 1) * size) |-> (k - 1) * size + j - 1]

\* the batch of items `indices` as the dataset returns them
BatchOf(indices) ==
  [status |-> "ok",
   prompt |-> [j \in 1..Len(indices) |-> ExpectedToken \o prompts[indices[j] + 1].s],
   output_path |-> [j \in 1..Len(indices) |-> output_paths[indices[j] + 1]],
   index |-> indices]

\* C7: the k-th batch to reach the encoder is made of the items
\* (k-1)*B .. min(k*B, n)-1, in index order, whatever the two workers'
\* interleaving; a run that completes has consumed ceil(n/B) batches.
C7_BatchesSequential ==
  LET n == _len
  IN  /\ Len(encoder_calls) <= CeilDiv(n, batch_size)
      /\ \A k \in 1..Len(encoder_calls) :
           encoder_calls[k] = BatchOf(BatchIndexRange(k, n, batch_size))
      /\ pc \in {"encode", "save"}
           => batch = BatchOf(BatchIndexRange(
                        Len(encoder_calls) + (IF pc = "encode" THEN 1 ELSE 0), n, batch_size))
      /\ pc = "done" => Len(encoder_calls) = CeilDiv(n, batch_size)

\* three items in batches of two: the first batch has reached the encoder
\* although the last, smaller batch arrived from its worker before it
C7_Witness ==
  /\ _len = 3 /\ batch_size = 2
  /\ pc = "save"
  /\ Len(encoder_calls) = 1
  /\ \E t \in loader.task_info : t.idx = 1 /\ t.data.index = <<2>>

\* output_dir joined with an item's output path
ExpectedFile(rel) ==
  IF rel # <<>> /\ Head(rel) = "/" THEN rel ELSE OutputDir \o <<"/">> \o rel

\* the artifact of a prompt
ExpectedArtifact(prompt) ==
  [prompt_embeds |-> Embeds(prompt), prompt_attention_mask |-> Mask(prompt)]

\* C8: when a run completes, every item's file, output_dir joined with its
\* output path, was written exactly once and holds the encoder's output for
\* that item's prompt, and nothing was written anywhere else.
C8_ArtifactPerItem ==
  pc = "done"
    => /\ \A j \in 1.._len :
            /\ Cardinality({ k \in 1..Len(saved) :
                               saved[k].file = ExpectedFile(output_paths[j]) }) = 1
            /\ \A k \in 1..Len(saved) :
                 saved[k].file = ExpectedFile(output_paths[j])
                   => saved[k].data = ExpectedArtifact(ExpectedToken \o prompts[j].s)
       /\ \A k \in 1..Len(saved) :
            \E j \in 1.._len : saved[k].file = ExpectedFile(output_paths[j])

\* a completed run of three items in two batches, with a token in front of
\* the prompts
C8_Witness ==
  /\ pc = "done"
  /\ _len = 3 /\ batch_size = 2
  /\ Len(saved) = 3
  /\ id_token # <<>>

\* the exceptions CaptionsDataset(...) can raise
ConstructErrors ==
  MissingFieldErrors
  \cup { "ValueError: unsupported format", "ValueError: not a list",
         "ValueError: empty name", "AttributeError" }

\* C9: a dataset file whose suffix is none of ".csv", ".json", ".jsonl" fails
\* construction with the unsupported-format error, whatever its records
\* (no loader runs); and when construction fails, the output directory has
\* not been created, the encoder neither loaded nor called, and nothing
\* written.
C9_UnsupportedFormatFailsFast ==
  /\ (pc # "start" /\ dataset_file.suffix \notin SupportedSuffixes)
       => /\ pc = "failed"
          /\ error = [status |-> "ValueError: unsupported format", at |-> 0]
  /\ (pc = "failed" /\ error.status \in ConstructErrors)
       => /\ dirs = {} /\ ~models_loaded
          /\ encoder_calls = <<>> /\ saved = <<>>
          /\ output_paths = <<>> /\ prompts = <<>>

\* construction failed on a ".txt" file whose only record lacks its caption
C9_Witness ==
  /\ pc = "failed"
  /\ dataset_file.suffix = ".txt"
  /\ \E k \in 1..Len(dataset_file.records) : LacksField(dataset_file.records[k])
  /\ error.status = "ValueError: unsupported format"
  /\ dirs = {}

\* the artifacts written so far are those of the items 0..m-1, written in
\* that order, and all of them belong to batches whose encoder call returned
WrittenIsPrefix ==
  /\ Len(saved) <= _len
  /\ \A k \in 1..Len(saved) : saved[k].file = ExpectedFile(output_paths[k])
  /\ Len(saved) <= batch_size * (Len(encoder_calls)
                                 - (IF error.status = "encoder error" THEN 1 ELSE 0))

IsPrefix(s, t) == Len(s) <= Len(t) /\ SubSeq(t, 1, Len(s)) = s

\* C10: at every point the written artifacts are those of a prefix of the
\* items, in item order, each written after its batch's encoder call
\* returned; a write is never undone; and once the encoder or a write has
\* failed the run has stopped: nothing is retried and nothing more written.
C10_WritesInOrderNoRetry ==
  /\ []WrittenIsPrefix
  /\ [][IsPrefix(saved, saved')]_vars
  /\ [][pc = "failed" => UNCHANGED vars]_vars

\* the encoder failed on the second batch, the first batch's artifacts are
\* written and the later items' are not
C10_Witness ==
  /\ pc = "failed"
  /\ error.status = "encoder error"
  /\ Len(encoder_calls) = 2
  /\ Len(saved) = batch_size
  /\ Len(saved) < _len

=============================================================================
